---- MODULE Spec2Model ----
(***************************************************************************)
(* A model of cu2t.c, a bridge that pops datagrams off one UDP socket and  *)
(* forwards them to one TCP connection.                                    *)
(*                                                                         *)
(* The process is single threaded.  Every action below is one step of its  *)
(* control flow: the argument check, a name resolution, one iteration of   *)
(* an attach loop, one recv() of the forward loop, or one send() of        *)
(* send_or_die together with the code that handles its result.  The        *)
(* results of the system calls are the inputs, drawn by \E from the        *)
(* outcomes the calls can have.                                            *)
(***************************************************************************)
EXTENDS Integers, Sequences, FiniteSets

(* ------------------------------ bounds --------------------------------- *)

\* Longest candidate list the resolver returns in the model.
MaxCands == 2

\* Capacity of the transfer buffer in the model (the source has 1024).
MaxBuf == 2

\* Datagrams received in one run.
MaxDatagrams == 2

\* Failed recv() calls in one run.
MaxRecvFail == 2

\* EINTR results of send() within one call of send_or_die.
MaxEintr == 1

(* --------------------------- program constants ------------------------- *)

\* #define BUF_SIZE 1024, scaled to the model's buffer capacity.
BUF_SIZE == MaxBuf

\* The flags argument of send() in send_or_die is 0: no MSG_NOSIGNAL.
SendFlags == {}

\* errno values a failing send() can leave, apart from EINTR and EPIPE.
SendErrnos == {"ECONNRESET"}

\* errno values a failing recv() can leave.
RecvErrnos == {"EINTR", "EBADF"}

\* argc values the process can be started with (argc = 5 is the valid one,
\* 4 is one argument short, 6 one too many).
ArgcValues == {4, 5, 6}

\* fd takes this value when socket() fails.
NoFd == -1

VARIABLES
    pc,          \* where the control flow is
    argc,        \* main's argc
    sigpipe,     \* disposition of SIGPIPE inherited at exec: never changed
    status,      \* "running", an exit status, or the signal that killed
    stderr,      \* the diagnostics written, in order
    result,      \* the candidate list of the attacher that is running
    rp,          \* index into result; Len(result) + 1 stands for NULL
    fd,          \* the attacher's local fd
    open,        \* the sockets the process holds open
    udp, tcp,    \* main's socket handles (NoFd before assignment)
    tried,       \* per attacher, the outcome of each candidate tried so far
    syscalls,    \* the system calls of the start-up, in the order issued
    buf,         \* the transfer buffer; the program never inspects a byte,
                 \* so a byte is named by where it came from: <<i, j>> is
                 \* byte j of the i-th datagram, <<0, j>> what the
                 \* uninitialised array holds at position j at start-up
    n,           \* main's n, the result of the last recv()
    len, off,    \* send_or_die's len and the distance buf has advanced
    peer_closed, \* the TCP peer has closed the connection
    stream,      \* the bytes the TCP transport has accepted, in order
    received,    \* the bytes of the datagrams recv() returned, in order
    calls,       \* the send() calls of the current send_or_die call
    nrecv,       \* successful recv() calls so far
    nrfail       \* failed recv() calls so far

vars == <<pc, argc, sigpipe, status, stderr, result, rp, fd, open, udp, tcp,
          tried, syscalls, buf, n, len, off, peer_closed, stream, received, calls,
          nrecv, nrfail>>

startup == <<argc, sigpipe>>
attach == <<result, rp, fd, open, udp, tcp, tried, syscalls>>
loop == <<buf, n, len, off, stream, received, calls, nrecv, nrfail>>

(* ------------------------------ helpers -------------------------------- *)

\* A line on the error stream: its text, the fd it names and the errno.
Diag(text, f, e) == <<text, f, e>>

\* exit(EXIT_FAILURE) after writing the diagnostic d.
Die(d) ==
    /\ stderr' = Append(stderr, d)
    /\ status' = "EXIT_FAILURE"
    /\ pc' = "exited"

\* socket() returns the lowest descriptor not in use; 0..2 are the standard
\* streams.
NewFd == CHOOSE f \in 3..(3 + Cardinality(open)) :
            /\ f \notin {s.fd : s \in open}
            /\ \A g \in 3..(f - 1) : g \in {s.fd : s \in open}

Sock(f, kind, cand) ==
    [fd |-> f, kind |-> kind, cand |-> cand, reuseport |-> FALSE,
     attached |-> FALSE]

\* close(f): the descriptor f leaves the set of open sockets.
Close(socks, f) == {s \in socks : s.fd # f}

RpIsNull == rp > Len(result)

\* A system call of the start-up as the kernel sees it: its name, the kind of
\* endpoint ("udp" for SOCK_DGRAM, "tcp" for SOCK_STREAM), the candidate it
\* is about (0 for getaddrinfo), the descriptor and the result.
Sys(call, kind, cand, f, res) ==
    [call |-> call, kind |-> kind, cand |-> cand, fd |-> f, res |-> res]

Init ==
    /\ pc = "main"
    /\ argc \in ArgcValues
    /\ sigpipe \in {"SIG_DFL", "SIG_IGN"}
    /\ status = "running"
    /\ stderr = <<>>
    /\ result = <<>>
    /\ rp = 1
    /\ fd = NoFd
    /\ open = {}
    /\ udp = NoFd
    /\ tcp = NoFd
    /\ tried = [udp |-> <<>>, tcp |-> <<>>]
    /\ syscalls = <<>>
    /\ buf = [j \in 1..BUF_SIZE |-> <<0, j>>]
    /\ n = 0
    /\ len = 0
    /\ off = 0
    /\ peer_closed = FALSE
    /\ stream = <<>>
    /\ received = <<>>
    /\ calls = <<>>
    /\ nrecv = 0
    /\ nrfail = 0

(* ------------------------- operators for the claims -------------------- *)

Last(s) == s[Len(s)]

IsPrefix(s, t) == Len(s) <= Len(t) /\ SubSeq(t, 1, Len(s)) = s

\* The last k elements of s.
Tail_(s, k) == SubSeq(s, Len(s) - k + 1, Len(s))

\* The bytes the transport accepted in the send() calls cs: the sum of their
\* positive results.
RECURSIVE Accepted(_)
Accepted(cs) ==
    IF cs = <<>> THEN 0
    ELSE (IF Head(cs).res > 0 THEN Head(cs).res ELSE 0) + Accepted(Tail(cs))

\* Bytes accepted before the i-th send() call of the current send_or_die call.
AcceptedBefore(i) == Accepted(SubSeq(calls, 1, i - 1))

\* send_or_die has been called for the datagram of the last recv(), of
\* length n, and calls holds the send() calls of that call.
InOrAfterWrite == nrecv > 0 /\ n >= 0

\* The datagram of the last successful recv(): the last n bytes received.
CurDgram == Tail_(received, n)

WriteDiag(e) == Diag("writing to fd", tcp, e)

(* ------------------------------ start-up ------------------------------- *)

\* main: argc != 5, usage() prints and exits.
usage ==
    /\ pc = "main"
    /\ argc # 5
    /\ Die(Diag("Usage: cu2t <udp_host> <udp_port> <tcp_host> <tcp_port>",
                NoFd, "none"))
    /\ UNCHANGED <<startup, attach, loop, peer_closed>>

\* get_addr_fail without the exit: the diagnostic is written and the
\* resolution is tried again.
get_addr_fail_retries(at, socktype) ==
    /\ pc = at
    /\ syscalls' = Append(syscalls, Sys("getaddrinfo", socktype, 0, NoFd, "EAI"))
    /\ stderr' = Append(stderr, Diag("getaddrinfo", NoFd, "EAI"))
    /\ UNCHANGED <<startup, pc, status, result, rp, fd, open, udp, tcp, tried,
                   loop, peer_closed>>

\* get_addr: getaddrinfo() fails.
get_addr_fail(at, socktype) ==
    /\ pc = at
    /\ syscalls' = Append(syscalls, Sys("getaddrinfo", socktype, 0, NoFd, "EAI"))
    /\ Die(Diag("getaddrinfo", NoFd, "EAI"))
    /\ UNCHANGED <<startup, result, rp, fd, open, udp, tcp, tried, loop,
                   peer_closed>>

\* get_addr: getaddrinfo() returns a list of k >= 1 candidates; the caller
\* starts its loop at the head of the list.
get_addr_ok(at, socktype, k, to) ==
    /\ pc = at
    /\ syscalls' = Append(syscalls, Sys("getaddrinfo", socktype, 0, NoFd, "ok"))
    /\ result' = [i \in 1..k |-> i]
    /\ rp' = 1
    /\ pc' = to
    /\ UNCHANGED <<startup, status, stderr, fd, open, udp, tcp, tried, loop,
                   peer_closed>>

\* bind_get_addr_ok without main's test of argc.
bind_get_addr_ok_unchecked ==
    \E k \in 1..MaxCands : get_addr_ok("main", "udp", k, "bind_loop")

\* bind_udp_sock: result = get_addr(host, port, SOCK_DGRAM), reached from
\* main when argc = 5.
bind_get_addr_fail == argc = 5 /\ get_addr_fail("main", "udp")

bind_get_addr_ok == argc = 5 /\ \E k \in 1..MaxCands :
                                    get_addr_ok("main", "udp", k, "bind_loop")

\* bind_socket_fail with the loop not advancing: the same candidate is
\* tried again.
bind_socket_fail_no_advance ==
    /\ pc = "bind_loop" /\ ~RpIsNull
    /\ fd' = NoFd
    /\ syscalls' = Append(syscalls,
                          Sys("socket", "udp", result[rp], NoFd, "EMFILE"))
    /\ stderr' = Append(stderr, Diag("bind_udp_sock socket()", NoFd, "EMFILE"))
    /\ tried' = [tried EXCEPT !.udp = Append(@, "socket")]
    /\ UNCHANGED <<startup, pc, status, result, rp, open, udp, tcp, loop,
                   peer_closed>>

\* bind_udp_sock, one iteration: socket() fails; continue.
bind_socket_fail ==
    /\ pc = "bind_loop" /\ ~RpIsNull
    /\ fd' = NoFd
    /\ syscalls' = Append(syscalls,
                          Sys("socket", "udp", result[rp], NoFd, "EMFILE"))
    /\ stderr' = Append(stderr, Diag("bind_udp_sock socket()", NoFd, "EMFILE"))
    /\ tried' = [tried EXCEPT !.udp = Append(@, "socket")]
    /\ rp' = rp + 1
    /\ UNCHANGED <<startup, pc, status, result, open, udp, tcp, loop,
                   peer_closed>>

\* bind_setsockopt_fail with the result of setsockopt() not looked at: the
\* socket is bound without the option and returned.
bind_setsockopt_fail_ignored ==
    /\ pc = "bind_loop" /\ ~RpIsNull
    /\ fd' = NewFd
    /\ open' = open \cup {[Sock(NewFd, "udp", result[rp])
                             EXCEPT !.attached = TRUE]}
    /\ syscalls' = syscalls \o
          <<Sys("socket", "udp", result[rp], NewFd, "ok"),
            Sys("setsockopt", "udp", result[rp], NewFd, "ENOPROTOOPT"),
            Sys("bind", "udp", result[rp], NewFd, "ok")>>
    /\ tried' = [tried EXCEPT !.udp = Append(@, "ok")]
    /\ udp' = NewFd
    /\ result' = <<>>
    /\ rp' = 1
    /\ pc' = "connect_tcp_sock"
    /\ UNCHANGED <<startup, status, stderr, tcp, loop, peer_closed>>

\* bind_udp_sock, one iteration: socket() succeeds, setsockopt() fails;
\* continue (the descriptor is not closed on this path).
bind_setsockopt_fail ==
    /\ pc = "bind_loop" /\ ~RpIsNull
    /\ fd' = NewFd
    /\ open' = open \cup {Sock(NewFd, "udp", result[rp])}
    /\ syscalls' = syscalls \o
          <<Sys("socket", "udp", result[rp], NewFd, "ok"),
            Sys("setsockopt", "udp", result[rp], NewFd, "ENOPROTOOPT")>>
    /\ stderr' = Append(stderr,
                        Diag("bind_udp_sock setsockopt()", NoFd, "ENOPROTOOPT"))
    /\ tried' = [tried EXCEPT !.udp = Append(@, "setsockopt")]
    /\ rp' = rp + 1
    /\ UNCHANGED <<startup, pc, status, result, udp, tcp, loop, peer_closed>>

\* bind_udp_sock, one iteration: socket() and setsockopt() succeed, bind()
\* fails; perror, close(fd), next candidate.
bind_bind_fail ==
    /\ pc = "bind_loop" /\ ~RpIsNull
    /\ fd' = NewFd
    /\ open' = Close(open \cup {[Sock(NewFd, "udp", result[rp])
                                   EXCEPT !.reuseport = TRUE]}, NewFd)
    /\ syscalls' = syscalls \o
          <<Sys("socket", "udp", result[rp], NewFd, "ok"),
            Sys("setsockopt", "udp", result[rp], NewFd, "ok"),
            Sys("bind", "udp", result[rp], NewFd, "EADDRINUSE"),
            Sys("close", "udp", result[rp], NewFd, "ok")>>
    /\ stderr' = Append(stderr, Diag("bind_udp_sock bind()", NoFd, "EADDRINUSE"))
    /\ tried' = [tried EXCEPT !.udp = Append(@, "bind")]
    /\ rp' = rp + 1
    /\ UNCHANGED <<startup, pc, status, result, udp, tcp, loop, peer_closed>>

\* bind_udp_sock, one iteration: socket(), setsockopt() and bind() succeed;
\* break, rp is not NULL, freeaddrinfo, return fd; main stores it in udp.
bind_ok ==
    /\ pc = "bind_loop" /\ ~RpIsNull
    /\ fd' = NewFd
    /\ open' = open \cup {[Sock(NewFd, "udp", result[rp])
                             EXCEPT !.reuseport = TRUE, !.attached = TRUE]}
    /\ syscalls' = syscalls \o
          <<Sys("socket", "udp", result[rp], NewFd, "ok"),
            Sys("setsockopt", "udp", result[rp], NewFd, "ok"),
            Sys("bind", "udp", result[rp], NewFd, "ok")>>
    /\ tried' = [tried EXCEPT !.udp = Append(@, "ok")]
    /\ udp' = NewFd
    /\ result' = <<>>
    /\ rp' = 1
    /\ pc' = "connect_tcp_sock"
    /\ UNCHANGED <<startup, status, stderr, tcp, loop, peer_closed>>

\* bind_exhausted without the rp == NULL test: the attacher returns fd.
bind_exhausted_returns ==
    /\ pc = "bind_loop" /\ RpIsNull
    /\ udp' = fd
    /\ result' = <<>>
    /\ rp' = 1
    /\ pc' = "connect_tcp_sock"
    /\ UNCHANGED <<startup, status, stderr, fd, open, tcp, tried, syscalls,
                   loop, peer_closed>>

\* bind_udp_sock after the loop: rp == NULL, no address succeeded.
bind_exhausted ==
    /\ pc = "bind_loop" /\ RpIsNull
    /\ Die(Diag("Could not bind udp_host:udp_port", NoFd, "none"))
    /\ UNCHANGED <<startup, attach, loop, peer_closed>>

\* connect_tcp_sock: result = get_addr(host, port, SOCK_STREAM).
connect_get_addr_fail == get_addr_fail("connect_tcp_sock", "tcp")

connect_get_addr_ok == \E k \in 1..MaxCands :
                          get_addr_ok("connect_tcp_sock", "tcp", k, "connect_loop")

\* connect_tcp_sock, one iteration: socket() fails; continue.
connect_socket_fail ==
    /\ pc = "connect_loop" /\ ~RpIsNull
    /\ fd' = NoFd
    /\ syscalls' = Append(syscalls,
                          Sys("socket", "tcp", result[rp], NoFd, "EMFILE"))
    /\ stderr' = Append(stderr,
                        Diag("connect_tcp_sock socket()", NoFd, "EMFILE"))
    /\ tried' = [tried EXCEPT !.tcp = Append(@, "socket")]
    /\ rp' = rp + 1
    /\ UNCHANGED <<startup, pc, status, result, open, udp, tcp, loop,
                   peer_closed>>

\* connect_connect_fail without the close(fd): the socket of the failed
\* candidate stays open.
connect_connect_fail_no_close ==
    /\ pc = "connect_loop" /\ ~RpIsNull
    /\ fd' = NewFd
    /\ open' = open \cup {Sock(NewFd, "tcp", result[rp])}
    /\ syscalls' = syscalls \o
          <<Sys("socket", "tcp", result[rp], NewFd, "ok"),
            Sys("connect", "tcp", result[rp], NewFd, "ECONNREFUSED")>>
    /\ stderr' = Append(stderr,
                        Diag("connect_tcp_sock connect()", NoFd, "ECONNREFUSED"))
    /\ tried' = [tried EXCEPT !.tcp = Append(@, "connect")]
    /\ rp' = rp + 1
    /\ UNCHANGED <<startup, pc, status, result, udp, tcp, loop, peer_closed>>

\* connect_tcp_sock, one iteration: socket() succeeds, connect() fails;
\* perror, close(fd), next candidate.
connect_connect_fail ==
    /\ pc = "connect_loop" /\ ~RpIsNull
    /\ fd' = NewFd
    /\ open' = Close(open \cup {Sock(NewFd, "tcp", result[rp])}, NewFd)
    /\ syscalls' = syscalls \o
          <<Sys("socket", "tcp", result[rp], NewFd, "ok"),
            Sys("connect", "tcp", result[rp], NewFd, "ECONNREFUSED"),
            Sys("close", "tcp", result[rp], NewFd, "ok")>>
    /\ stderr' = Append(stderr,
                        Diag("connect_tcp_sock connect()", NoFd, "ECONNREFUSED"))
    /\ tried' = [tried EXCEPT !.tcp = Append(@, "connect")]
    /\ rp' = rp + 1
    /\ UNCHANGED <<startup, pc, status, result, udp, tcp, loop, peer_closed>>

\* connect_tcp_sock, one iteration: socket() and connect() succeed; break,
\* freeaddrinfo, return fd; main stores it in tcp and enters the loop.
connect_ok ==
    /\ pc = "connect_loop" /\ ~RpIsNull
    /\ fd' = NewFd
    /\ open' = open \cup {[Sock(NewFd, "tcp", result[rp])
                             EXCEPT !.attached = TRUE]}
    /\ syscalls' = syscalls \o
          <<Sys("socket", "tcp", result[rp], NewFd, "ok"),
            Sys("connect", "tcp", result[rp], NewFd, "ok")>>
    /\ tried' = [tried EXCEPT !.tcp = Append(@, "ok")]
    /\ tcp' = NewFd
    /\ result' = <<>>
    /\ rp' = 1
    /\ pc' = "recv"
    /\ UNCHANGED <<startup, status, stderr, udp, loop, peer_closed>>

\* connect_exhausted without the exit: the attacher returns fd, which is -1,
\* and main enters the forward loop.
connect_exhausted_returns ==
    /\ pc = "connect_loop" /\ RpIsNull
    /\ stderr' = Append(stderr,
                        Diag("Could not connect tcp_host:tcp_port", NoFd, "none"))
    /\ tcp' = NoFd
    /\ result' = <<>>
    /\ rp' = 1
    /\ pc' = "recv"
    /\ UNCHANGED <<startup, status, fd, open, udp, tried, syscalls, loop,
                   peer_closed>>

\* connect_tcp_sock after the loop: rp == NULL, no address succeeded.
connect_exhausted ==
    /\ pc = "connect_loop" /\ RpIsNull
    /\ Die(Diag("Could not connect tcp_host:tcp_port", NoFd, "none"))
    /\ UNCHANGED <<startup, attach, loop, peer_closed>>

(* ---------------------------- forward loop ----------------------------- *)

\* main, one iteration: recv() returns k >= 0 bytes (a datagram longer than
\* BUF_SIZE is cut to BUF_SIZE by recv), which overwrite buf[0..k-1] and leave
\* the rest of buf as it was; n is not -1, so send_or_die(tcp, buf, n) is
\* called.
recv_ok ==
    /\ pc = "recv"
    /\ nrecv < MaxDatagrams
    /\ \E k \in 0..BUF_SIZE :
         LET d == [j \in 1..k |-> <<nrecv + 1, j>>] IN
         /\ n' = k
         /\ buf' = [j \in 1..BUF_SIZE |-> IF j <= k THEN d[j] ELSE buf[j]]
         /\ received' = received \o d
         /\ len' = k
    /\ off' = 0
    /\ calls' = <<>>
    /\ nrecv' = nrecv + 1
    /\ pc' = "send_or_die"
    /\ UNCHANGED <<startup, attach, status, stderr, stream, nrfail,
                   peer_closed>>

\* recv_fail with the failure treated as fatal: perror and exit.
recv_fail_fatal ==
    /\ pc = "recv"
    /\ nrfail < MaxRecvFail
    /\ \E e \in RecvErrnos : Die(Diag("main recv()", NoFd, e))
    /\ n' = -1
    /\ nrfail' = nrfail + 1
    /\ UNCHANGED <<startup, attach, buf, len, off, stream, received, calls,
                   nrecv, peer_closed>>

\* main, one iteration: recv() returns -1; perror and continue.
recv_fail ==
    /\ pc = "recv"
    /\ nrfail < MaxRecvFail
    /\ \E e \in RecvErrnos :
         stderr' = Append(stderr, Diag("main recv()", NoFd, e))
    /\ n' = -1
    /\ nrfail' = nrfail + 1
    /\ UNCHANGED <<startup, attach, pc, status, buf, len, off, stream,
                   received, calls, nrecv, peer_closed>>

\* A send() call of send_or_die as the transport sees it: the descriptor, the
\* span passed (buf has advanced by off, len bytes remain) and the result.
Call(res, e) == [fd |-> tcp, off |-> off, len |-> len, res |-> res,
                 errno |-> e]

\* send_or_die_return with the two operands of the loop test swapped: send()
\* is called with len 0 and returns 0 before len is looked at.
send_or_die_return_sends_first ==
    /\ pc = "send_or_die"
    /\ len = 0
    /\ calls' = Append(calls, Call(0, "none"))
    /\ pc' = "recv"
    /\ UNCHANGED <<startup, attach, status, stderr, buf, n, len, off, stream,
                   received, nrecv, nrfail, peer_closed>>

\* send_or_die: len is 0 at the loop test, so the function returns.
send_or_die_return ==
    /\ pc = "send_or_die"
    /\ len = 0
    /\ pc' = "recv"
    /\ UNCHANGED <<startup, attach, status, stderr, loop, peer_closed>>

\* send_some without buf += nw.
send_some_no_advance(nw) ==
    /\ pc = "send_or_die"
    /\ len # 0
    /\ stream' = stream \o SubSeq(buf, off + 1, off + nw)
    /\ calls' = Append(calls, Call(nw, "none"))
    /\ len' = len - nw
    /\ off' = off
    /\ UNCHANGED <<startup, attach, pc, status, stderr, buf, n, received,
                   nrecv, nrfail, peer_closed>>

\* send_some without len -= nw.
send_some_no_decrease(nw) ==
    /\ pc = "send_or_die"
    /\ len # 0
    /\ stream' = stream \o SubSeq(buf, off + 1, off + nw)
    /\ calls' = Append(calls, Call(nw, "none"))
    /\ len' = len
    /\ off' = off + nw
    /\ UNCHANGED <<startup, attach, pc, status, stderr, buf, n, received,
                   nrecv, nrfail, peer_closed>>

\* send_or_die: send() accepts nw > 0 of the len bytes at buf; len -= nw,
\* buf += nw.
send_some(nw) ==
    /\ pc = "send_or_die"
    /\ len # 0
    /\ stream' = stream \o SubSeq(buf, off + 1, off + nw)
    /\ calls' = Append(calls, Call(nw, "none"))
    /\ len' = len - nw
    /\ off' = off + nw
    /\ UNCHANGED <<startup, attach, pc, status, stderr, buf, n, received,
                   nrecv, nrfail, peer_closed>>

send_accepts == \E nw \in 1..len : send_some(nw)

\* send_or_die: send() returns 0 although len is not 0; the loop condition
\* is false and the function returns.
send_zero ==
    /\ pc = "send_or_die"
    /\ len # 0
    /\ calls' = Append(calls, Call(0, "none"))
    /\ pc' = "recv"
    /\ UNCHANGED <<startup, attach, status, stderr, buf, n, len, off, stream,
                   received, nrecv, nrfail, peer_closed>>

NumEintr == Cardinality({i \in 1..Len(calls) : calls[i].errno = "EINTR"})

\* send_eintr without the continue: nw = -1 reaches len -= nw; buf += nw.
send_eintr_no_continue ==
    /\ pc = "send_or_die"
    /\ len # 0
    /\ NumEintr < MaxEintr
    /\ calls' = Append(calls, Call(-1, "EINTR"))
    /\ len' = len + 1
    /\ off' = off - 1
    /\ UNCHANGED <<startup, attach, pc, status, stderr, buf, n, stream,
                   received, nrecv, nrfail, peer_closed>>

\* send_or_die: send() returns -1 with errno EINTR; continue.
send_eintr ==
    /\ pc = "send_or_die"
    /\ len # 0
    /\ NumEintr < MaxEintr
    /\ calls' = Append(calls, Call(-1, "EINTR"))
    /\ UNCHANGED <<startup, attach, pc, status, stderr, buf, n, len, off,
                   stream, received, nrecv, nrfail, peer_closed>>

\* send_or_die: send() returns -1 with another errno; fprintf and exit.
send_error(e) ==
    /\ pc = "send_or_die"
    /\ len # 0
    /\ calls' = Append(calls, Call(-1, e))
    /\ Die(Diag("writing to fd", tcp, e))
    /\ UNCHANGED <<startup, attach, buf, n, len, off, stream, received,
                   nrecv, nrfail, peer_closed>>

send_fails == \E e \in SendErrnos : send_error(e)

\* The kernel generates SIGPIPE for a send() on a stream socket whose peer
\* has gone unless the call passes MSG_NOSIGNAL; the default action of
\* SIGPIPE ends the process.
SigpipeKills == "MSG_NOSIGNAL" \notin SendFlags /\ sigpipe = "SIG_DFL"

\* send_or_die: send() on a connection the peer has closed fails with EPIPE.
\* Either SIGPIPE ends the process inside the call, or the call returns -1
\* and send_or_die takes its error path.  calls records the call with the
\* error the transport raised in both cases.
send_epipe ==
    /\ pc = "send_or_die"
    /\ len # 0
    /\ peer_closed
    /\ calls' = Append(calls, Call(-1, "EPIPE"))
    /\ IF SigpipeKills
         THEN /\ pc' = "killed"
              /\ status' = "SIGPIPE"
              /\ UNCHANGED stderr
         ELSE Die(Diag("writing to fd", tcp, "EPIPE"))
    /\ UNCHANGED <<startup, attach, buf, n, len, off, stream, received,
                   nrecv, nrfail, peer_closed>>

\* The TCP peer closes the connection while the bridge runs.
peer_closes ==
    /\ pc \in {"recv", "send_or_die"}
    /\ ~peer_closed
    /\ peer_closed' = TRUE
    /\ UNCHANGED <<startup, attach, pc, status, stderr, loop>>

(* --------------------------- specifications ---------------------------- *)

\* The steps of main before the forward loop: usage, bind_udp_sock and
\* connect_tcp_sock.
NextAttach ==
    \/ usage
    \/ bind_get_addr_fail
    \/ bind_get_addr_ok
    \/ bind_socket_fail
    \/ bind_setsockopt_fail
    \/ bind_bind_fail
    \/ bind_ok
    \/ bind_exhausted
    \/ connect_get_addr_fail
    \/ connect_get_addr_ok
    \/ connect_socket_fail
    \/ connect_connect_fail
    \/ connect_ok
    \/ connect_exhausted

\* The steps of the forward loop, with the peer's close.
NextLoop ==
    \/ recv_ok
    \/ recv_fail
    \/ send_or_die_return
    \/ send_accepts
    \/ send_zero
    \/ send_eintr
    \/ send_fails
    \/ send_epipe
    \/ peer_closes

Next == NextAttach \/ NextLoop

\* The whole program, from the entry of main.
Spec == Init /\ [][Next]_vars

\* main up to the forward loop.
SpecAttach == Init /\ [][NextAttach]_vars

\* main at the first recv() when the first candidate of each list attached:
\* descriptor 3 is the bound UDP socket, descriptor 4 the connected TCP
\* socket, nothing has been written to stderr.
LoopEntry ==
    /\ pc = "recv"
    /\ argc = 5
    /\ sigpipe \in {"SIG_DFL", "SIG_IGN"}
    /\ status = "running"
    /\ stderr = <<>>
    /\ result = <<>>
    /\ rp = 1
    /\ fd = 4
    /\ open = {[Sock(3, "udp", 1) EXCEPT !.reuseport = TRUE,
                                         !.attached = TRUE],
               [Sock(4, "tcp", 1) EXCEPT !.attached = TRUE]}
    /\ udp = 3
    /\ tcp = 4
    /\ tried = [udp |-> <<"ok">>, tcp |-> <<"ok">>]
    /\ syscalls = <<Sys("getaddrinfo", "udp", 0, NoFd, "ok"),
                    Sys("socket", "udp", 1, 3, "ok"),
                    Sys("setsockopt", "udp", 1, 3, "ok"),
                    Sys("bind", "udp", 1, 3, "ok"),
                    Sys("getaddrinfo", "tcp", 0, NoFd, "ok"),
                    Sys("socket", "tcp", 1, 4, "ok"),
                    Sys("connect", "tcp", 1, 4, "ok")>>
    /\ buf = [j \in 1..BUF_SIZE |-> <<0, j>>]
    /\ n = 0
    /\ len = 0
    /\ off = 0
    /\ peer_closed = FALSE
    /\ stream = <<>>
    /\ received = <<>>
    /\ calls = <<>>
    /\ nrecv = 0
    /\ nrfail = 0

\* The forward loop from that entry.
SpecLoop == LoopEntry /\ [][NextLoop]_vars

\* No datagram has been handled to the end yet: main has not come back to
\* recv() after the first successful recv().
FirstDatagram == nrecv = 0 \/ pc # "recv"

\* The whole program, from the entry of main until the first datagram has
\* been handled.
SpecFirst == Init /\ [][NextAttach \/ (FirstDatagram /\ NextLoop)]_vars

\* send_or_die at its loop test when send(), if called, gives a result other
\* than EINTR: the function returns, goes round the loop once with fewer
\* bytes left, or ends the process.
WriterProgress ==
    \/ send_or_die_return
    \/ send_accepts
    \/ send_zero
    \/ send_fails
    \/ send_epipe

\* The first iteration of the forward loop when every send() call returns
\* and send_or_die does not see EINTR from send() forever.
SpecWrite ==
    /\ LoopEntry
    /\ [][FirstDatagram /\ NextLoop]_vars
    /\ WF_vars(WriterProgress)

\* LoopEntry is a state of the whole program: Spec reaches it.
LoopEntryUnreached == ~LoopEntry

(* -------------------------------- claims ------------------------------- *)

\* C1: send_or_die(fd, buf, L) returns to its caller only when all L bytes
\* have been accepted by send calls: whenever main is back at recv() after a
\* call of send_or_die for a datagram of n bytes, the send calls of that call
\* have accepted n bytes in total.
C1_AllOrTerminate ==
    (pc = "recv" /\ InOrAfterWrite) => Accepted(calls) = n

\* C2: while the process runs, the bytes accepted on the TCP connection are
\* a prefix of the concatenation of the datagrams received, and the whole
\* concatenation whenever main is at recv().
C2_ForwardingFidelity ==
    pc \in {"recv", "send_or_die"} =>
        /\ IsPrefix(stream, received)
        /\ pc = "recv" => stream = received

\* C3: a send on a connection the peer has closed never ends the process by
\* a signal: it returns an error and the process ends through send_or_die's
\* error path, with the diagnostic and a non-zero exit status.
C3_BrokenPipeSuppressed ==
    /\ status # "SIGPIPE"
    /\ pc # "killed"
    /\ (calls # <<>> /\ Last(calls).errno = "EPIPE") =>
          /\ pc = "exited"
          /\ status = "EXIT_FAILURE"
          /\ stderr # <<>> /\ Last(stderr) = WriteDiag("EPIPE")

\* The descriptors of the open sockets.
OpenFds == {s.fd : s \in open}

\* C4: no socket of a failed candidate stays open: while an attacher is
\* between candidates, or has exited on exhaustion, the only sockets open are
\* those earlier attachers returned, and once an attacher has returned the
\* only socket it left open is the one it returned.
C4_NoSocketLeak ==
    /\ pc = "bind_loop" => open = {}
    /\ (pc = "exited" /\ udp = NoFd) => open = {}
    /\ pc = "connect_tcp_sock" => OpenFds = {udp}
    /\ pc = "connect_loop" => OpenFds = {udp}
    /\ (pc = "exited" /\ udp # NoFd /\ tcp = NoFd) => OpenFds = {udp}
    /\ tcp # NoFd => OpenFds = {udp, tcp}

\* C5: every send call of send_or_die passes the not-yet-accepted suffix of
\* the datagram (offset = the bytes accepted by earlier calls, length = n
\* minus that), the span the next call would pass is that suffix too, and
\* the bytes accepted so far are the first bytes of the datagram, in order.
C5_PartialWriteCorrect ==
    InOrAfterWrite =>
        /\ \A i \in 1..Len(calls) :
              /\ calls[i].off = AcceptedBefore(i)
              /\ calls[i].len = n - AcceptedBefore(i)
        /\ Accepted(calls) <= n
        /\ Tail_(stream, Accepted(calls)) = SubSeq(CurDgram, 1, Accepted(calls))
        /\ pc = "send_or_die" =>
              SubSeq(buf, off + 1, off + len)
                  = SubSeq(CurDgram, Accepted(calls) + 1, n)

\* C5 witness: a datagram has been accepted whole in two partial writes.
C5_Witness ==
    /\ pc = "send_or_die" /\ n = 2 /\ len = 0
    /\ Len(calls) = 2 /\ calls[1].res = 1 /\ calls[2].res = 1
    /\ stream = received

\* The stderr line of a failed recv().
IsRecvDiag(d) == d[1] = "main recv()"

\* C6, in a state: a send call that failed with EINTR is followed by a send
\* call with the same descriptor, offset and length, and right after the
\* EINTR the writer is about to issue exactly that call; the bytes accepted
\* are the first bytes of the datagram whatever EINTRs lie between.
C6_SendRetried ==
    InOrAfterWrite =>
        /\ \A i \in 1..Len(calls) :
              calls[i].errno = "EINTR" =>
                  /\ calls[i].res = -1
                  /\ i < Len(calls) =>
                        /\ calls[i + 1].fd = calls[i].fd
                        /\ calls[i + 1].off = calls[i].off
                        /\ calls[i + 1].len = calls[i].len
                  /\ i = Len(calls) =>
                        /\ pc = "send_or_die"
                        /\ off = calls[i].off
                        /\ len = calls[i].len
                        /\ len # 0
        /\ Tail_(stream, Accepted(calls)) = SubSeq(CurDgram, 1, Accepted(calls))

\* C6, in a step: a recv that fails with EINTR writes nothing to the TCP
\* stream, issues no send, leaves the buffer and the bytes received as they
\* were, and the next action of the loop is recv again.
C6_RecvRetried ==
    (nrfail' = nrfail + 1 /\ Last(stderr')[3] = "EINTR") =>
        /\ pc' = "recv"
        /\ stream' = stream
        /\ received' = received
        /\ calls' = calls
        /\ buf' = buf

\* C6: interrupted calls are retried with nothing advanced, lost or
\* duplicated.
C6_InterruptedCallRetry == []C6_SendRetried /\ [][C6_RecvRetried]_vars

\* C6 witness: a recv failed with EINTR, then a datagram arrived, its send
\* failed with EINTR, and the retried send delivered the whole datagram.
C6_Witness ==
    /\ nrfail = 1 /\ Last(stderr)[3] = "EINTR"
    /\ nrecv = 1 /\ n = 2
    /\ Len(calls) = 2 /\ calls[1].errno = "EINTR" /\ calls[2].res = 2
    /\ pc = "recv"
    /\ stream = received

\* C7: when a send call fails with an error other than EINTR, the process
\* has written the diagnostic naming the socket and the error and has exited
\* with a non-zero status (an exited process issues no further call).
C7_FatalWriteError ==
    (calls # <<>> /\ Last(calls).res = -1 /\ Last(calls).errno # "EINTR") =>
        /\ pc = "exited"
        /\ status = "EXIT_FAILURE"
        /\ stderr # <<>>
        /\ Last(stderr) = WriteDiag(Last(calls).errno)

\* C8, in a step: a failing recv writes one diagnostic, issues no send,
\* leaves the TCP stream as it was, leaves the process running and leaves
\* the loop at recv.
C8_RecvFailStep ==
    nrfail' = nrfail + 1 =>
        /\ pc = "recv" /\ pc' = "recv"
        /\ status' = "running"
        /\ stream' = stream
        /\ calls' = calls
        /\ n' = -1
        /\ Len(stderr') = Len(stderr) + 1
        /\ IsRecvDiag(Last(stderr'))

\* C8, in a state: no exit follows a recv diagnostic, and the program only
\* leaves the forward loop by the writer's exit or by a signal.
C8_NoExitOnRecv ==
    /\ (status = "EXIT_FAILURE" /\ stderr # <<>>) => ~IsRecvDiag(Last(stderr))
    /\ (nrfail > 0 /\ status = "running") => pc \in {"recv", "send_or_die"}

\* C8: receive errors are non-fatal.
C8_RecvErrorsNonFatal == []C8_NoExitOnRecv /\ [][C8_RecvFailStep]_vars

\* C8 witness: two recv failures in a row and the loop is at recv, running.
C8_Witness ==
    /\ nrfail = 2 /\ Len(stderr) >= 2
    /\ IsRecvDiag(stderr[Len(stderr)]) /\ IsRecvDiag(stderr[Len(stderr) - 1])
    /\ stderr[Len(stderr)][3] # stderr[Len(stderr) - 1][3]
    /\ pc = "recv" /\ status = "running" /\ n = -1

\* C9, in a state: with an empty datagram the writer has nothing to send and
\* has issued no send call, and it can return; every datagram, the one after
\* an empty one included, is handed to the writer whole, from offset 0.
C9_EmptyNoSend ==
    /\ (InOrAfterWrite /\ n = 0) =>
          /\ calls = <<>>
          /\ len = 0
          /\ pc = "send_or_die" => ENABLED send_or_die_return
    /\ (pc = "send_or_die" /\ calls = <<>>) =>
          /\ off = 0
          /\ len = n
          /\ SubSeq(buf, 1, n) = CurDgram

\* C9, in a step: receiving an empty datagram changes neither the buffer nor
\* the bytes received, and the step of the writer that follows returns to
\* recv with the TCP stream unchanged and the process running.
C9_EmptyStep ==
    /\ (nrecv' = nrecv + 1 /\ n' = 0) =>
          /\ buf' = buf
          /\ received' = received
          /\ stream' = stream
    /\ (pc = "send_or_die" /\ n = 0 /\ pc' # pc) =>
          /\ pc' = "recv"
          /\ status' = "running"
          /\ stream' = stream
          /\ calls' = <<>>

AllFailed(kind) ==
    /\ result # <<>>
    /\ Len(tried[kind]) = Len(result)
    /\ \A i \in 1..Len(result) : tried[kind][i] # "ok"

Attached(f, kind) ==
    \E s \in open : s.fd = f /\ s.kind = kind /\ s.attached

CouldNotBind == Diag("Could not bind udp_host:udp_port", NoFd, "none")
CouldNotConnect == Diag("Could not connect tcp_host:tcp_port", NoFd, "none")

\* C10, in a state: an attacher whose candidates have all failed is at its
\* rp == NULL test or has exited with the diagnostic naming host:port; a
\* handle an attacher returned is bound / connected; the forward loop runs
\* only with both handles attached.
C10_ExhaustedState ==
    /\ (pc \in {"bind_loop", "exited"} /\ udp = NoFd /\ AllFailed("udp")) =>
          \/ pc = "bind_loop" /\ RpIsNull
          \/ /\ pc = "exited" /\ status = "EXIT_FAILURE"
             /\ Last(stderr) = CouldNotBind
    /\ (pc \in {"connect_loop", "exited"} /\ udp # NoFd /\ tcp = NoFd
          /\ AllFailed("tcp")) =>
          \/ pc = "connect_loop" /\ RpIsNull
          \/ /\ pc = "exited" /\ status = "EXIT_FAILURE"
             /\ Last(stderr) = CouldNotConnect
    /\ udp # NoFd => Attached(udp, "udp")
    /\ tcp # NoFd => Attached(tcp, "tcp")
    /\ pc \in {"recv", "send_or_die"} =>
          /\ Attached(udp, "udp") /\ Attached(tcp, "tcp")
          /\ Last(tried.udp) = "ok" /\ Last(tried.tcp) = "ok"

\* C10, in a step: from the rp == NULL test the only step is the exit with
\* the diagnostic, and nothing follows an exit.
C10_ExhaustedStep ==
    /\ (pc = "bind_loop" /\ RpIsNull) =>
          /\ pc' = "exited" /\ status' = "EXIT_FAILURE"
          /\ Last(stderr') = CouldNotBind
          /\ udp' = NoFd
    /\ (pc = "connect_loop" /\ RpIsNull) =>
          /\ pc' = "exited" /\ status' = "EXIT_FAILURE"
          /\ Last(stderr') = CouldNotConnect
          /\ tcp' = NoFd
    /\ pc # "exited"

\* C10: attach exhaustion is fatal.
C10_AttachExhaustionFatal == []C10_ExhaustedState /\ [][C10_ExhaustedStep]_vars

\* C10 witness: bind_udp_sock has exited on exhaustion after a last
\* candidate that failed at socket() or at setsockopt().
C10_Witness ==
    /\ pc = "exited" /\ status = "EXIT_FAILURE"
    /\ AllFailed("udp") /\ Len(result) = 2
    /\ Last(tried.udp) \in {"socket", "setsockopt"}
    /\ Last(stderr) = CouldNotBind

\* The descriptor f names one socket from call i to call j of the start-up:
\* between them no socket() returned f and no close() released it.
SameSocket(f, i, j) ==
    \A k \in (i + 1)..(j - 1) :
        ~(syscalls[k].call \in {"socket", "close"} /\ syscalls[k].fd = f)

\* C11: every bind() of the start-up is on a socket on which setsockopt
\* (SO_REUSEPORT) succeeded before; a socket on which it failed is never
\* bound; the UDP socket bind_udp_sock returns has the option set.
C11_ReuseportBeforeBind ==
    /\ \A i \in 1..Len(syscalls) :
          syscalls[i].call = "bind" =>
              /\ \E j \in 1..(i - 1) :
                    /\ syscalls[j].call = "setsockopt"
                    /\ syscalls[j].fd = syscalls[i].fd
                    /\ syscalls[j].res = "ok"
                    /\ SameSocket(syscalls[i].fd, j, i)
              /\ \A j \in 1..(i - 1) :
                    (/\ syscalls[j].call = "setsockopt"
                     /\ syscalls[j].fd = syscalls[i].fd
                     /\ syscalls[j].res # "ok") => ~SameSocket(syscalls[i].fd, j, i)
    /\ \A s \in open : (s.kind = "udp" /\ s.attached) => s.reuseport
    /\ udp # NoFd => \E s \in open : s.fd = udp /\ s.attached /\ s.reuseport

\* C11 witness: setsockopt failed on the socket of the first candidate, which
\* was not bound, and the socket of the second candidate was bound with the
\* option set and returned.
C11_Witness ==
    /\ tried.udp = <<"setsockopt", "ok">>
    /\ udp # NoFd
    /\ \E s \in open : s.fd = udp /\ s.attached /\ s.reuseport
    /\ \E s \in open : s.fd # udp /\ ~s.attached /\ ~s.reuseport

UsageDiag ==
    Diag("Usage: cu2t <udp_host> <udp_port> <tcp_host> <tcp_port>", NoFd, "none")

\* C12: started with argc other than 5, the process is at the entry of main
\* with usage() as its step, or has exited with EXIT_FAILURE and the usage
\* message as the only line on stderr; no name resolution, socket call, recv
\* or send has been made.
C12_UsageError ==
    argc # 5 =>
        /\ pc \in {"main", "exited"}
        /\ pc = "main" => (ENABLED usage /\ stderr = <<>> /\ status = "running")
        /\ pc = "exited" => (status = "EXIT_FAILURE" /\ stderr = <<UsageDiag>>)
        /\ syscalls = <<>>
        /\ open = {} /\ udp = NoFd /\ tcp = NoFd
        /\ nrecv = 0 /\ nrfail = 0 /\ calls = <<>> /\ stream = <<>>

\* C12 witness: started one argument short, the process has exited on the
\* usage message.
C12_Witness ==
    /\ argc = 4 /\ pc = "exited" /\ status = "EXIT_FAILURE"
    /\ stderr = <<UsageDiag>> /\ syscalls = <<>>

\* The indexes of the getaddrinfo calls for the endpoint of `kind`.
Resolutions(kind) ==
    {i \in 1..Len(syscalls) :
        syscalls[i].call = "getaddrinfo" /\ syscalls[i].kind = kind}

\* C13: each endpoint is resolved at most once, and before any socket is
\* created for it; a failed resolution is the last system call of the
\* process, which has written the getaddrinfo diagnostic and exited with
\* EXIT_FAILURE, and no socket was created for that endpoint.
C13_ResolutionFatal ==
    /\ \A kind \in {"udp", "tcp"} : Cardinality(Resolutions(kind)) <= 1
    /\ \A i \in 1..Len(syscalls) :
          /\ syscalls[i].call = "socket" =>
                \E j \in Resolutions(syscalls[i].kind) :
                    j < i /\ syscalls[j].res = "ok"
          /\ (syscalls[i].call = "getaddrinfo" /\ syscalls[i].res # "ok") =>
                /\ i = Len(syscalls)
                /\ pc = "exited" /\ status = "EXIT_FAILURE"
                /\ Last(stderr) = Diag("getaddrinfo", NoFd, syscalls[i].res)
                /\ \A k \in 1..Len(syscalls) :
                      syscalls[k].call = "socket" =>
                          syscalls[k].kind # syscalls[i].kind
                /\ \A sk \in open : sk.kind # syscalls[i].kind

\* C13 witness: the UDP socket is bound, the resolution of the TCP endpoint
\* has failed and the process has exited.
C13_Witness ==
    /\ pc = "exited" /\ status = "EXIT_FAILURE"
    /\ udp # NoFd /\ tcp = NoFd
    /\ Last(syscalls) = Sys("getaddrinfo", "tcp", 0, NoFd, "EAI")
    /\ Last(stderr) = Diag("getaddrinfo", NoFd, "EAI")

\* The first words of the diagnostics that precede an exit: usage error,
\* resolution failure, attach exhaustion, write error.
ExitDiagTexts ==
    {UsageDiag[1], "getaddrinfo", CouldNotBind[1], CouldNotConnect[1],
     "writing to fd"}

\* C15: the process never ends with status 0 and never leaves the forward
\* loop towards the end of main; whenever it has ended, it has ended by
\* exit(EXIT_FAILURE) and the last line on stderr is the diagnostic of a
\* usage error, a resolution failure, an attach exhaustion or a write error.
C15_ExitStatus ==
    /\ status # "EXIT_SUCCESS"
    /\ pc \in {"main", "bind_loop", "connect_tcp_sock", "connect_loop",
               "recv", "send_or_die"} <=> status = "running"
    /\ status # "running" =>
          /\ pc = "exited"
          /\ status = "EXIT_FAILURE"
          /\ stderr # <<>>
          /\ Last(stderr)[1] \in ExitDiagTexts

\* The indexes of the socket() calls for the endpoint of `kind`: one per
\* candidate tried.
SocketCalls(kind) ==
    {i \in 1..Len(syscalls) :
        syscalls[i].call = "socket" /\ syscalls[i].kind = kind}

\* The indexes of the calls on candidates of the endpoint of `kind`.
CandCalls(kind) ==
    {i \in 1..Len(syscalls) :
        syscalls[i].call # "getaddrinfo" /\ syscalls[i].kind = kind}

\* The handle h was returned for the endpoint of `kind` by the call `how`
\* (bind or connect): that call succeeded on h, it is the last call on a
\* candidate of the endpoint, its candidate is the first on which no call
\* failed, and the socket open on h is the one attached to that candidate.
ReturnedFirstSuccess(kind, how, h) ==
    \E i \in CandCalls(kind) :
        /\ syscalls[i].call = how /\ syscalls[i].res = "ok"
        /\ syscalls[i].fd = h
        /\ \A j \in CandCalls(kind) : j <= i
        /\ \A c \in 1..(syscalls[i].cand - 1) :
              \E j \in CandCalls(kind) :
                  syscalls[j].cand = c /\ syscalls[j].res # "ok"
        /\ \A j \in CandCalls(kind) :
              syscalls[j].cand = syscalls[i].cand => syscalls[j].res = "ok"
        /\ \E s \in open :
              /\ s.fd = h /\ s.kind = kind /\ s.attached
              /\ s.cand = syscalls[i].cand

\* C16: the k-th socket() call of an attacher is for the k-th candidate of
\* the list and the calls on one candidate all come before the calls on the
\* next; the handle an attacher returned is the socket attached to the first
\* candidate on which every step succeeded, and no candidate was tried and no
\* socket created for that endpoint after it.
C16_CandidateOrder ==
    /\ \A kind \in {"udp", "tcp"} :
          /\ \A i \in SocketCalls(kind) :
                syscalls[i].cand
                    = Cardinality({j \in SocketCalls(kind) : j <= i})
          /\ \A i, j \in CandCalls(kind) :
                i < j => syscalls[i].cand <= syscalls[j].cand
          /\ \A i \in CandCalls(kind) :
                syscalls[i].call # "socket" =>
                    \E j \in SocketCalls(kind) :
                        /\ j < i
                        /\ syscalls[j].cand = syscalls[i].cand
                        /\ syscalls[j].fd = syscalls[i].fd
    /\ udp # NoFd => ReturnedFirstSuccess("udp", "bind", udp)
    /\ tcp # NoFd => ReturnedFirstSuccess("tcp", "connect", tcp)

\* C16 witness: both attachers failed on their first candidate and returned
\* the socket of the second.
C16_Witness ==
    /\ pc = "recv"
    /\ tried.udp = <<"bind", "ok">> /\ tried.tcp = <<"connect", "ok">>
    /\ \E s \in open : s.fd = udp /\ s.cand = 2
    /\ \E s \in open : s.fd = tcp /\ s.cand = 2

\* C17: main is at recv() only when no byte of the datagram received before
\* is still unsent; the bytes every send call of send_or_die is given are
\* bytes of the datagram received last and of no other; and whenever main is
\* back at recv() every byte of every datagram received so far has been
\* accepted by the transport.
C17_StrictAlternation ==
    /\ pc = "recv" => len = 0
    /\ pc \in {"recv", "send_or_die"} =>
          \A i \in 1..Len(calls) :
              \A j \in (calls[i].off + 1)..(calls[i].off + calls[i].len) :
                  buf[j][1] = nrecv
    /\ pc = "recv" =>
          \A i \in 1..Len(received) :
              \E j \in 1..Len(stream) : stream[j] = received[i]

\* The TCP sockets the process holds.
TcpSockets(socks) == {s \in socks : s.kind = "tcp"}

\* The number of TCP sockets the process holds after the i-th system call of
\* the start-up: those socket() returned less those close() was called on.
TcpOpenAfter(i) ==
    Cardinality({j \in 1..i : /\ syscalls[j].kind = "tcp"
                              /\ syscalls[j].call = "socket"
                              /\ syscalls[j].res = "ok"})
    - Cardinality({j \in 1..i : /\ syscalls[j].kind = "tcp"
                                /\ syscalls[j].call = "close"})

\* C18, in a state: the process holds at most one TCP socket, also after
\* each system call inside an iteration of connect_tcp_sock; the handle
\* connect_tcp_sock returned is an open, connected TCP socket, and every send
\* call was made on it.
C18_AtMostOne ==
    /\ Cardinality(TcpSockets(open)) <= 1
    /\ \A i \in 1..Len(syscalls) : TcpOpenAfter(i) \in {0, 1}
    /\ calls # <<>> => tcp # NoFd
    /\ tcp # NoFd =>
          /\ Attached(tcp, "tcp")
          /\ TcpSockets(open) = {s \in open : s.fd = tcp}
          /\ \A i \in 1..Len(calls) : calls[i].fd = tcp

\* C18, in a step: once connect_tcp_sock has returned, no step closes the
\* connection, opens another TCP socket or stores another handle in tcp.
C18_Kept ==
    tcp # NoFd =>
        /\ tcp' = tcp
        /\ TcpSockets(open') = TcpSockets(open)
        /\ syscalls' = syscalls

\* C18: the process holds at most one TCP socket in every state, and the
\* connection connect_tcp_sock returned is the one every send call uses and
\* is kept as it is until the process ends.
C18_SingleUpstream == []C18_AtMostOne /\ [][C18_Kept]_vars

\* C18 witness: the first TCP candidate failed and its socket was closed,
\* the second connected, and a send call has been made on it.
C18_Witness ==
    /\ tried.tcp = <<"connect", "ok">>
    /\ calls # <<>> /\ Last(calls).fd = tcp
    /\ Cardinality(TcpSockets(open)) = 1

\* The send calls of the current call of send_or_die that accepted data.
AcceptingCalls == {i \in 1..Len(calls) : calls[i].res > 0}

\* C19, in a state: a send call that returned a positive count left fewer
\* bytes than it was given, and that many are passed to the next call; a
\* call of send_or_die for L bytes makes at most L send calls that accept
\* data.
C19_Decreases ==
    /\ len >= 0
    /\ \A i \in AcceptingCalls :
          /\ calls[i].res <= calls[i].len
          /\ calls[i].len - calls[i].res < calls[i].len
          /\ i < Len(calls) => calls[i + 1].len = calls[i].len - calls[i].res
          /\ i = Len(calls) => len = calls[i].len - calls[i].res
    /\ calls # <<>> => Cardinality(AcceptingCalls) <= calls[1].len

\* C19, in a step: a send call that accepts data strictly decreases the
\* remaining length; one that fails with EINTR leaves send_or_die at its loop
\* test with the same buffer position and the same, non-zero, remaining
\* length, so the same call is issued again.
C19_SendStep ==
    Len(calls') = Len(calls) + 1 =>
        /\ Last(calls').res > 0 => len' < len /\ len' >= 0
        /\ Last(calls').errno = "EINTR" =>
              /\ pc' = "send_or_die"
              /\ len' = len /\ len' # 0
              /\ off' = off
              /\ stream' = stream

\* C19: every send call that accepts data strictly decreases the remaining
\* length, so at most L calls accept data; a send call that fails with EINTR
\* changes nothing and is retried; and when send does not fail with EINTR
\* forever, every call of send_or_die ends: it returns to main or the process
\* ends.
C19_WriterTerminates ==
    /\ []C19_Decreases
    /\ [][C19_SendStep]_vars
    /\ (pc = "send_or_die") ~> (pc # "send_or_die")

\* C19 witness: a call of send_or_die for 2 bytes has returned after a send
\* call that failed with EINTR and two that accepted one byte each.
C19_Witness ==
    /\ pc = "recv"
    /\ Len(calls) = 3 /\ calls[1].len = 2
    /\ Cardinality(AcceptingCalls) = 2
    /\ \E i \in 1..3 : calls[i].errno = "EINTR"
    /\ len = 0

\* The start-up calls about the TCP endpoint: its resolution, and socket(),
\* connect() and close() on its candidates.
TcpCalls == {i \in 1..Len(syscalls) : syscalls[i].kind = "tcp"}

\* The bind() of the UDP socket that succeeded, if there is one.
UdpBound == {i \in 1..Len(syscalls) :
                /\ syscalls[i].kind = "udp"
                /\ syscalls[i].call = "bind"
                /\ syscalls[i].res = "ok"}

\* The process holds the UDP socket bind_udp_sock returned, bound and with
\* the port-sharing option set.
HoldsBoundUdp ==
    \E s \in open :
        /\ s.fd = udp /\ s.kind = "udp"
        /\ s.attached /\ s.reuseport

\* C20: every call about the TCP endpoint, the resolution first, comes after
\* the successful bind() of the UDP socket; main is in the forward loop, so
\* has issued or is about to issue a recv, only with the TCP connection
\* established; and a process that exited because the TCP resolution or
\* every connect attempt failed holds the bound UDP socket and has received
\* and forwarded nothing.
C20_StartupOrder ==
    /\ \A i \in TcpCalls : \E j \in UdpBound : j < i
    /\ pc \in {"connect_tcp_sock", "connect_loop"} =>
          HoldsBoundUdp /\ tcp = NoFd
    /\ (pc \in {"recv", "send_or_die", "killed"} \/ nrecv + nrfail > 0) =>
          /\ HoldsBoundUdp
          /\ Attached(tcp, "tcp")
          /\ \E i \in TcpCalls :
                syscalls[i].call = "connect" /\ syscalls[i].res = "ok"
    /\ (pc = "exited" /\ TcpCalls # {} /\ tcp = NoFd) =>
          /\ Last(stderr) \in {Diag("getaddrinfo", NoFd, "EAI"), CouldNotConnect}
          /\ HoldsBoundUdp
          /\ nrecv = 0 /\ nrfail = 0
          /\ received = <<>> /\ stream = <<>> /\ calls = <<>>

\* C20 witness: every connect attempt failed and the process has exited
\* holding the bound UDP socket, with nothing received.
C20_Witness ==
    /\ pc = "exited" /\ status = "EXIT_FAILURE"
    /\ Last(stderr) = CouldNotConnect
    /\ AllFailed("tcp") /\ Len(tried.tcp) = 2
    /\ HoldsBoundUdp /\ tcp = NoFd
    /\ nrecv = 0 /\ stream = <<>>

====
